---- MODULE Spec2Model ----
(***************************************************************************)
(* Video-Previewer: the frame-timeline planner (CLIMain.process_file), the *)
(* batch capture loop and the file names of BaseBackend.capture_frames,    *)
(* the parsing and the duration calibration of MPlayerBackend.load_file,   *)
(* the output file of MPlayerBackend.capture_frame, and the two threads   *)
(* of GStreamerBackend (caller and bus main loop).                         *)
(*                                                                         *)
(* Python floats are modelled as exact rationals [n |-> numerator,         *)
(* d |-> denominator] kept in lowest terms with d > 0, so that equality of *)
(* two rationals is equality of the records.  The literals 0.5, 0.2 and    *)
(* 0.001 of the source are the rationals 1/2, 1/5 and 1/1000.              *)
(***************************************************************************)
EXTENDS Integers, Sequences, FiniteSets, TLC

VARIABLES
    \* ---- CLIMain.process_file: the timeline planner
    duration,        \* info["duration"], a rational
    grid_rows,       \* options.grid_rows
    grid_cols,       \* options.grid_cols
    capture_focus,   \* options.capture_focus: "none" | "begin" | "end"
    frame_times,     \* the planned capture times (sequence of rationals)
    plan_pc,         \* "start" | "done" | "ZeroDivisionError"
    \* ---- BaseBackend.capture_frames: the batch loop
    backend,         \* "mplayer" | "gstreamer": which capture_frame is bound
    batch_times,     \* the frame_times argument of capture_frames
    batch_idx,       \* position of the for loop (1-based, next to capture)
    frame_files,     \* the list being built: <<current, capture_time>> records
    calls,           \* log of the capture_frame calls made so far
    batch_pc,        \* "loop" | "reset" | "poll" | "run" | "if" | "returned" | "KeyError"
    b_capture_set,   \* the backend object has the attribute _capture
    b_handler,       \* the frame-written handler at the reset of _capture
    \* ---- MPlayerBackend.load_file: the calibration binary search
    left,
    right,
    probes,          \* log of the probing captures: [middle, ok]
    duration_scale,
    cal_pc,          \* "loop" | "done"
    \* ---- safe_int_log and the frame file name of capture_frames
    nm_size,         \* len(frame_times)
    nm_current,      \* the number written into the name
    nm_estimate,     \* int(math.floor(math.log(value, base))) as computed
    nm_name,         \* the file name: [prefix, digits, suffix]
    nm_pc,           \* "start" | "done"
    \* ---- MPlayerBackend.load_file: parsing midentify's output
    ld_output,       \* output.splitlines(): a sequence of lines
    ld_idx,          \* position of the for loop over the lines (1-based)
    ld_info,         \* the local dict info
    ld_parsed,       \* info as it was when the for loop ended
    ld_result,       \* the returned dict, <<>> while there is none
    ld_pc,           \* "parse" | "calibrate" | "returned" | an exception
    \* ---- GStreamerBackend: the caller's thread
    g_pc,            \* position of the caller within load_file/capture_frame
    g_file,          \* number of load_file calls so far: the current file
    g_loaded,        \* load_file has returned and unload_file was not called
    g_cap,           \* number of capture_frame calls so far
    g_results,       \* log of the ended capture_frame calls
    g_snapshot,      \* each returned info dict as it was when returned
    \* ---- GStreamerBackend: the shared objects
    player_state,    \* "NULL" | "PAUSED" | "PLAYING"
    g_mutations,     \* log of seeks and state changes, with their thread
    g_capture_set,   \* does self._capture exist?
    g_capture,       \* the dict self._capture
    g_self_info,     \* which dict self.info is (0: it does not exist)
    g_infos,         \* the info dicts made so far
    \* ---- GStreamerBackend: the bus and the main-loop thread
    bus,             \* the messages posted and not yet dispatched
    g_posted,        \* how many messages of each kind were posted
    w_pc,            \* position of the main-loop thread within on_message
    w_msg,           \* the message on_message was called with, <<>> outside it
    g_handled,       \* log of the handled messages
    \* ---- GStreamerBackend.load_file: the poll of query_duration
    g_queryable,     \* will the pipeline ever answer the duration query?
    g_polls,         \* failed polls of the load in progress, up to MaxPolls
    \* ---- MPlayerBackend.capture_frame: the files of the temporary directory
    mc_exists,       \* does tmp_dir/00000001.png exist?
    mc_frames,       \* the destination files written so far
    mc_log           \* log of the capture_frame calls that have returned

planVars  == <<duration, grid_rows, grid_cols, capture_focus, frame_times, plan_pc>>
batchVars == <<backend, batch_times, batch_idx, frame_files, calls, batch_pc,
               b_capture_set, b_handler>>
calVars   == <<left, right, probes, duration_scale, cal_pc>>
nameVars  == <<nm_size, nm_current, nm_estimate, nm_name, nm_pc>>
loadVars  == <<ld_output, ld_idx, ld_info, ld_parsed, ld_result, ld_pc>>
gstVars   == <<g_pc, g_file, g_loaded, g_cap, g_results, g_snapshot,
               player_state, g_mutations, g_capture_set, g_capture,
               g_self_info, g_infos, bus, g_posted, w_pc, w_msg, g_handled,
               g_queryable, g_polls>>
mcVars    == <<mc_exists, mc_frames, mc_log>>
restVars  == <<nameVars, loadVars, gstVars, mcVars>>
vars      == <<planVars, batchVars, calVars, restVars>>

(***************************************************************************)
(* Bounds of the model.                                                    *)
(***************************************************************************)
MaxRows == 3
MaxCols == 3
MaxDurationHalves == 8
MaxBatch == 3
MaxTime == 2
MaxBatchSize == 1000
MaxLines == 3
MaxFiles == 2
MaxCaptures == 2
MaxTags == 1
MaxErrors == 1
MaxPolls == 2
MaxCalls == 3

(***************************************************************************)
(* Exact rational arithmetic standing for Python's float arithmetic.       *)
(***************************************************************************)
Abs(x) == IF x < 0 THEN -x ELSE x

\* Each operation is a function applied to its arguments, so that an
\* argument is evaluated once, before the operation, as Python does.
Rats == [n : Int, d : Nat \ {0}]

gcd[a \in Nat, b \in Nat] == IF b = 0 THEN a ELSE gcd[b, a % b]
GCD(a, b) == gcd[a, b]

lcm[a \in Nat, b \in Nat] == (a \div gcd[a, b]) * b
LCM(a, b) == lcm[a, b]

\* the rational n/d (d > 0) in lowest terms
rat[n \in Int, d \in Nat \ {0}] ==
    [n |-> n \div gcd[Abs(n), d], d |-> d \div gcd[Abs(n), d]]
Rat(n, d) == rat[n, d]

radd[a \in Rats, b \in Rats] ==
    rat[a.n * (lcm[a.d, b.d] \div a.d) + b.n * (lcm[a.d, b.d] \div b.d),
        lcm[a.d, b.d]]
RAdd(a, b) == radd[a, b]

rsub[a \in Rats, b \in Rats] ==
    rat[a.n * (lcm[a.d, b.d] \div a.d) - b.n * (lcm[a.d, b.d] \div b.d),
        lcm[a.d, b.d]]
RSub(a, b) == rsub[a, b]

rmul[a \in Rats, b \in Rats] ==
    rat[(a.n \div gcd[Abs(a.n), b.d]) * (b.n \div gcd[Abs(b.n), a.d]),
        (a.d \div gcd[Abs(b.n), a.d]) * (b.d \div gcd[Abs(a.n), b.d])]
RMul(a, b) == rmul[a, b]

\* a / b for b # 0 (Python raises ZeroDivisionError for b = 0; the callers
\* test for it before dividing)
rdiv[a \in Rats, b \in Rats] ==
    IF b.n > 0 THEN rmul[a, [n |-> b.d, d |-> b.n]]
               ELSE rmul[a, [n |-> -b.d, d |-> -b.n]]
RDiv(a, b) == rdiv[a, b]

rlt[a \in Rats, b \in Rats] ==
    a.n * (lcm[a.d, b.d] \div a.d) < b.n * (lcm[a.d, b.d] \div b.d)
RLt(a, b) == rlt[a, b]

rle[a \in Rats, b \in Rats] == a = b \/ rlt[a, b]
RLe(a, b) == rle[a, b]

RInt(k) == [n |-> k, d |-> 1]

(***************************************************************************)
(* CLIMain.process_file, "Determine list of capture times".                *)
(***************************************************************************)
\* self.backend.frame_capture_padding, set by the backend's constructor
frame_capture_padding == Rat(1, 2)

\* frame_count = self.options.grid_rows * self.options.grid_cols
frame_count == grid_rows * grid_cols

\* info["duration"] - 2 * self.backend.frame_capture_padding
InteriorSpan == RSub(duration, RMul(RInt(2), frame_capture_padding))

\* part_length = float(duration - 2 * padding) / (frame_count + 1)
part_length == RDiv(InteriorSpan, RInt(frame_count + 1))

\* a planner that forgets the padding in front of the first frame
FirstNoneWithoutPadding == part_length

\* focus "none": frame_times = [part_length + padding]
FirstNone == RAdd(part_length, frame_capture_padding)

\* focus "none": last = last + part_length
StepNone(last) == RAdd(last, part_length)

\* for i in range(1, frame_count): last = last + part_length; append(last)
RECURSIVE LoopNone(_, _, _)
LoopNone(times, last, i) ==
    IF i >= frame_count THEN times
    ELSE LET nl == StepNone(last)
         IN  LoopNone(Append(times, nl), nl, i + 1)

\* base = part_length * 0.2
base == RMul(part_length, Rat(1, 5))

\* a planner that solves for delta without the factor 2
DeltaWithoutFactorTwo ==
    RDiv(RSub(RDiv(InteriorSpan, RInt(frame_count + 1)), base), RInt(frame_count))

\* delta = (duration / (frame_count + 1) - base) * 2 / frame_count, where
\* duration is the interior span; evaluated only for frame_count # 0
delta ==
    RDiv(RMul(RSub(RDiv(InteriorSpan, RInt(frame_count + 1)), base), RInt(2)),
         RInt(frame_count))

\* a planner that forgets the padding in front of the first focused frame
FirstFocusWithoutPadding == base

\* focus "begin"/"end": frame_times = [base + padding]
FirstFocus == RAdd(base, frame_capture_padding)

\* focus "begin"/"end": last = last + base + delta * i
StepFocus(last, i) == RAdd(RAdd(last, base), RMul(delta, RInt(i)))

\* for i in range(1, frame_count): last = last + base + delta * i; append(last)
RECURSIVE LoopFocus(_, _, _)
LoopFocus(times, last, i) ==
    IF i >= frame_count THEN times
    ELSE LET nl == StepFocus(last, i)
         IN  LoopFocus(Append(times, nl), nl, i + 1)

\* the frame times for "begin", computed before the conversion for "end"
BeginTimes == LoopFocus(<<FirstFocus>>, FirstFocus, 1)

\* frame_times[i] = info["duration"] - frame_times[i]
Mirror(t) == RSub(duration, t)

\* a conversion for "end" that forgets to reverse the list
ReverseForgotten(s) == s

\* list.reverse()
Reverse(s) == [i \in 1..Len(s) |-> s[Len(s) + 1 - i]]

\* if focus == "end": mirror every element, then reverse the list
ConvertEnd(times) == Reverse([i \in 1..Len(times) |-> Mirror(times[i])])

\* the branch for capture_focus == "none"
PlanNone ==
    /\ plan_pc = "start"
    /\ capture_focus = "none"
    /\ frame_times' = LoopNone(<<FirstNone>>, FirstNone, 1)
    /\ plan_pc' = "done"
    /\ UNCHANGED <<duration, grid_rows, grid_cols, capture_focus>>
    /\ UNCHANGED <<batchVars, calVars, restVars>>

\* the branch for capture_focus in {"begin", "end"}; dividing by a
\* frame_count of 0 raises ZeroDivisionError before frame_times is bound
PlanFocus ==
    /\ plan_pc = "start"
    /\ capture_focus # "none"
    /\ IF frame_count = 0
       THEN /\ plan_pc' = "ZeroDivisionError"
            /\ frame_times' = frame_times
       ELSE /\ plan_pc' = "done"
            /\ frame_times' =
                 IF capture_focus = "end" THEN ConvertEnd(BeginTimes)
                                          ELSE BeginTimes
    /\ UNCHANGED <<duration, grid_rows, grid_cols, capture_focus>>
    /\ UNCHANGED <<batchVars, calVars, restVars>>

\* durations the probe may report: k/2 seconds, and the 120 s of the
\* documented scenario
Durations == {Rat(k, 2) : k \in 1..MaxDurationHalves} \cup {RInt(120)}

BatchIdle ==
    /\ backend = "mplayer"
    /\ batch_times = <<>>
    /\ batch_idx = 1
    /\ frame_files = <<>>
    /\ calls = <<>>
    /\ batch_pc = "returned"
    /\ b_capture_set = FALSE
    /\ b_handler = "idle"

CalIdle ==
    /\ left = RInt(0)
    /\ right = RInt(0)
    /\ probes = <<>>
    /\ duration_scale = RInt(1)
    /\ cal_pc = "done"

PlanIdle ==
    /\ duration = RInt(0)
    /\ grid_rows = 0
    /\ grid_cols = 0
    /\ capture_focus = "none"
    /\ frame_times = <<>>
    /\ plan_pc = "done"

NameIdle ==
    /\ nm_size = 0
    /\ nm_current = 0
    /\ nm_estimate = 0
    /\ nm_name = <<>>
    /\ nm_pc = "done"

LoadIdle ==
    /\ ld_output = <<>>
    /\ ld_idx = 1
    /\ ld_info = <<>>
    /\ ld_parsed = <<>>
    /\ ld_result = <<>>
    /\ ld_pc = "returned"

GstIdle ==
    /\ g_pc = "idle"
    /\ g_file = 0
    /\ g_loaded = FALSE
    /\ g_cap = 0
    /\ player_state = "NULL"
    /\ g_mutations = <<>>
    /\ g_capture_set = FALSE
    /\ g_capture = <<>>
    /\ g_self_info = 0
    /\ g_infos = <<>>
    /\ g_snapshot = <<>>
    /\ g_results = <<>>
    /\ g_posted = [tags |-> 0, frames |-> 0, errors |-> 0]
    /\ bus = <<>>
    /\ w_pc = "quit"
    /\ w_msg = <<>>
    /\ g_handled = <<>>
    /\ g_queryable = TRUE
    /\ g_polls = 0

MCapIdle ==
    /\ mc_exists = FALSE
    /\ mc_frames = {}
    /\ mc_log = <<>>

RestIdle == NameIdle /\ LoadIdle /\ GstIdle /\ MCapIdle

InitPlan ==
    /\ duration \in Durations
    /\ grid_rows \in 0..MaxRows
    /\ grid_cols \in 0..MaxCols
    /\ capture_focus \in {"none", "begin", "end"}
    /\ frame_times = <<>>
    /\ plan_pc = "start"
    /\ BatchIdle
    /\ CalIdle
    /\ RestIdle

NextPlan == PlanNone \/ PlanFocus

SpecPlan == InitPlan /\ [][NextPlan]_vars

(***************************************************************************)
(* util.safe_int_log and the file name "frame-%0*d.png" of capture_frames. *)
(* math.log is a floating-point quotient: its floor may be one off the     *)
(* exact logarithm, in either direction, and is at least 0 for value >= 1. *)
(***************************************************************************)
RECURSIVE Pow(_, _)
Pow(b, e) == IF e = 0 THEN 1 ELSE b * Pow(b, e - 1)

\* the exact floor of the logarithm: the w with b^w <= value < b^(w+1)
RECURSIVE ExactLog(_, _)
ExactLog(value, b) == IF value < b THEN 0 ELSE 1 + ExactLog(value \div b, b)

\* int(math.floor(math.log(value, base))): the values the floats may give
LogEstimates(value, b) ==
    {e \in {ExactLog(value, b) - 1, ExactLog(value, b), ExactLog(value, b) + 1} :
        e >= 0}

\* while base ** log > value: log -= 1
RECURSIVE LogDown(_, _, _)
LogDown(log, value, b) ==
    IF Pow(b, log) > value THEN LogDown(log - 1, value, b) ELSE log

\* a safe_int_log without its second loop
LogUpForgotten(log, value, b) == log

\* while base ** (log + 1) <= value: log += 1
RECURSIVE LogUp(_, _, _)
LogUp(log, value, b) ==
    IF Pow(b, log + 1) <= value THEN LogUp(log + 1, value, b) ELSE log

\* safe_int_log(value, base), from the estimate the floats gave
safe_int_log(estimate, value, b) == LogUp(LogDown(estimate, value, b), value, b)

\* the decimal digits of a number, as "%d" writes them
RECURSIVE Digits(_)
Digits(k) == IF k < 10 THEN <<k>> ELSE Append(Digits(k \div 10), k % 10)

\* "%0*d" % (width, k): padded with zeros on the left to at least width
ZeroPadded(width, k) ==
    LET ds == Digits(k)
    IN  [i \in 1..(IF width > Len(ds) THEN width - Len(ds) ELSE 0) |-> 0] \o ds

\* "frame-%0*d.png" % (safe_int_log(len(frame_times), 10) + 1, current)
FrameFileName(estimate, size, current) ==
    [prefix |-> "frame-",
     digits |-> ZeroPadded(safe_int_log(estimate, size, 10) + 1, current),
     suffix |-> ".png"]

\* the naming of one frame of a batch of nm_size
NameFrame ==
    /\ nm_pc = "start"
    /\ \E estimate \in LogEstimates(nm_size, 10) :
          /\ nm_estimate' = estimate
          /\ nm_name' = FrameFileName(estimate, nm_size, nm_current)
    /\ nm_pc' = "done"
    /\ UNCHANGED <<nm_size, nm_current>>
    /\ UNCHANGED <<planVars, batchVars, calVars, loadVars, gstVars, mcVars>>

InitName ==
    /\ nm_size \in 1..MaxBatchSize
    /\ nm_current \in 1..nm_size
    /\ nm_estimate = 0
    /\ nm_name = <<>>
    /\ nm_pc = "start"
    /\ PlanIdle
    /\ BatchIdle
    /\ CalIdle
    /\ LoadIdle
    /\ GstIdle
    /\ MCapIdle

NextName == NameFrame

SpecName == InitName /\ [][NextName]_vars

(***************************************************************************)
(* BaseBackend.capture_frames.  A value returned by capture_frame is the   *)
(* Python object False or a number; [tag, n] keeps the two apart, so that  *)
(* what the code can and cannot tell apart is decided by Truthy below.     *)
(* A call of capture_frame that has not returned has an outcome of the     *)
(* same shape: "not returned", or the exception it raised.                 *)
(***************************************************************************)
PyFalse == [tag |-> "False", n |-> 0]
PyNum(t) == [tag |-> "num", n |-> t]
PyRaises(exception) == [tag |-> exception, n |-> 0]
PyNotReturned == [tag |-> "not returned", n |-> 0]

\* the call came back with a value
Returned(v) == v.tag \in {"False", "num"}

\* `if capture_time:` -- False and the numbers 0 and 0.0 are falsy
Truthy(v) == v.tag = "num" /\ v.n # 0

\* MPlayerBackend.capture_frame: False when the expected output file is
\* missing, else the requested capture_time
MPlayerCaptureResults(capture_time) == {PyFalse, PyNum(capture_time)}

\* Where the handler of the frame-written message stands when the caller
\* executes `self._capture = {"done": False}`.  The handler runs in the
\* main-loop thread and the pipeline is PLAYING before the reset:
\*  - "pending": its writes are still to come; they fill the new dictionary;
\*  - "across": its first writes went into the dictionary of an earlier
\*    capture_frame and `["done"] = True` is still to come: the poll will end
\*    on a dictionary without "capture_time" or without "file_name".  This
\*    needs an earlier dictionary, which is an attribute of the backend
\*    object and outlives capture_frames and unload_file;
\*  - "none": nothing will set "done" in the new dictionary (the handler ran
\*    to its end before the reset, stopped with AttributeError because no
\*    dictionary existed, or the pipeline writes no frame).
HandlerAtReset ==
    {"pending", "none"} \cup (IF b_capture_set THEN {"across"} ELSE {})

\* GStreamerBackend.capture_frame once the poll has seen "done":
\* self._capture["capture_time"], the timestamp of the frame the pipeline
\* wrote, whatever time was asked for; KeyError when the key is missing
GStreamerCaptureResults(capture_time) ==
    IF b_handler = "across" THEN {PyRaises("KeyError")}
                            ELSE {PyNum(t) : t \in 0..MaxTime}

\* self.capture_frame(time, frame_file), by the backend bound to self
CaptureFrameResults(capture_time) ==
    IF backend = "mplayer" THEN MPlayerCaptureResults(capture_time)
                           ELSE GStreamerCaptureResults(capture_time)

\* a numbering by the position of the request in the batch
CurrentOrdinal == batch_idx

\* current = len(frame_files) + 1
Current == Len(frame_files) + 1

\* if capture_time: frame_files.append((frame_file, capture_time))
AppendIfCaptured(files, frame_file, capture_time) ==
    IF Truthy(capture_time)
    THEN Append(files, [file |-> frame_file, capture_time |-> capture_time.n])
    ELSE files

\* the call of capture_frame in progress
CurrentCall == calls[Len(calls)]

\* the head of one iteration of `for time in frame_times`: the number and
\* the name of the file, then the call self.capture_frame(time, frame_file).
\* On the GStreamer backend the call begins with the seek and
\* set_state(PLAYING).
CaptureFramesCall ==
    /\ batch_pc = "loop"
    /\ batch_idx <= Len(batch_times)
    /\ calls' = Append(calls, [time |-> batch_times[batch_idx],
                               file |-> Current, result |-> PyNotReturned])
    /\ batch_pc' = IF backend = "gstreamer" THEN "reset" ELSE "run"
    /\ UNCHANGED <<backend, batch_times, batch_idx, frame_files,
                   b_capture_set, b_handler>>
    /\ UNCHANGED <<planVars, calVars, restVars>>

\* GStreamerBackend.capture_frame: self._capture = {"done": False}
CaptureFrameReset ==
    /\ batch_pc = "reset"
    /\ b_handler' \in HandlerAtReset
    /\ b_capture_set' = TRUE
    /\ batch_pc' = "poll"
    /\ UNCHANGED <<backend, batch_times, batch_idx, frame_files, calls>>
    /\ UNCHANGED <<planVars, calVars, restVars>>

\* capture_frame is called with no try around it: a value comes back to the
\* `if capture_time:` of capture_frames, an exception ends capture_frames
AfterCaptureFrame(capture_time) ==
    IF Returned(capture_time) THEN "if" ELSE capture_time.tag

\* the end of capture_frame.  MPlayerBackend: the run of mplayer and the
\* return.  GStreamerBackend: `while not self._capture["done"]` ends when
\* the handler has set "done", then the file is moved and the timestamp
\* returned; with nothing to set "done" the poll goes on and this step is
\* never taken.
CaptureFrameEnd ==
    /\ batch_pc \in {"run", "poll"}
    /\ batch_pc = "poll" => b_handler # "none"
    /\ \E capture_time \in CaptureFrameResults(CurrentCall.time) :
          /\ calls' = [calls EXCEPT ![Len(calls)].result = capture_time]
          /\ batch_pc' = AfterCaptureFrame(capture_time)
    /\ b_handler' = "idle"
    /\ UNCHANGED <<backend, batch_times, batch_idx, frame_files, b_capture_set>>
    /\ UNCHANGED <<planVars, calVars, restVars>>

\* if capture_time: frame_files.append((frame_file, capture_time)), and on
\* to the next time
CaptureFramesRecord ==
    /\ batch_pc = "if"
    /\ frame_files' = AppendIfCaptured(frame_files, CurrentCall.file,
                                       CurrentCall.result)
    /\ batch_idx' = batch_idx + 1
    /\ batch_pc' = "loop"
    /\ UNCHANGED <<backend, batch_times, calls, b_capture_set, b_handler>>
    /\ UNCHANGED <<planVars, calVars, restVars>>

\* return frame_files
CaptureFramesReturn ==
    /\ batch_pc = "loop"
    /\ batch_idx > Len(batch_times)
    /\ batch_pc' = "returned"
    /\ UNCHANGED <<backend, batch_times, batch_idx, frame_files, calls,
                   b_capture_set, b_handler>>
    /\ UNCHANGED <<planVars, calVars, restVars>>

RECURSIVE SeqsUpTo(_, _)
SeqsUpTo(S, k) ==
    IF k = 0 THEN {<<>>}
    ELSE LET shorter == SeqsUpTo(S, k - 1)
         IN  shorter \cup {Append(q, x) : q \in shorter, x \in S}

\* the times a caller can ask for: capture_frames and capture_frame take
\* any time, 0 included
RequestTimes == 0..MaxTime

\* a backend object serves every file of the run: a batch starts on a new
\* GStreamer backend or on one that an earlier batch has captured with
InitBatch ==
    /\ backend \in {"mplayer", "gstreamer"}
    /\ batch_times \in SeqsUpTo(RequestTimes, MaxBatch)
    /\ batch_idx = 1
    /\ frame_files = <<>>
    /\ calls = <<>>
    /\ batch_pc = "loop"
    /\ b_capture_set \in (IF backend = "gstreamer" THEN BOOLEAN ELSE {FALSE})
    /\ b_handler = "idle"
    /\ PlanIdle
    /\ CalIdle
    /\ RestIdle

NextBatch ==
    \/ CaptureFramesCall
    \/ CaptureFrameReset
    \/ CaptureFrameEnd
    \/ CaptureFramesRecord
    \/ CaptureFramesReturn

SpecBatch == InitBatch /\ [][NextBatch]_vars

(***************************************************************************)
(* MPlayerBackend.load_file: the binary search for the duration scale,     *)
(* entered when midentify reports ID_VIDEO_FPS == 1000.  Each iteration    *)
(* runs one probing capture (capture_frame without destination), whose     *)
(* outcome is the environment's.                                           *)
(***************************************************************************)
EPS == Rat(1, 1000)

\* while right - left >= EPS
LoopCondition == RLe(EPS, RSub(right, left))

\* middle = (right + left) * 0.5
middle == RMul(RAdd(right, left), Rat(1, 2))

\* left = middle + EPS
NewLeft == RAdd(middle, EPS)

\* a search that lowers the upper bound to the midpoint only
NewRightWithoutMargin == middle

\* right = middle - EPS
NewRight == RSub(middle, EPS)

\* a search that adds the margin to the final scale instead of subtracting it
FinalScalePlusMargin == RAdd(left, EPS)

\* self.duration_scale = left - EPS
FinalScale == RSub(left, EPS)

\* one iteration of the while loop
CalibrateProbe ==
    /\ cal_pc = "loop"
    /\ LoopCondition
    /\ \E ok \in BOOLEAN :
          /\ probes' = Append(probes, [middle |-> middle, ok |-> ok])
          /\ IF ok THEN left' = NewLeft /\ right' = right
                   ELSE right' = NewRight /\ left' = left
    /\ UNCHANGED <<duration_scale, cal_pc>>
    /\ UNCHANGED <<planVars, batchVars, restVars>>

\* the loop exit
CalibrateFinish ==
    /\ cal_pc = "loop"
    /\ ~LoopCondition
    /\ duration_scale' = FinalScale
    /\ cal_pc' = "done"
    /\ UNCHANGED <<left, right, probes>>
    /\ UNCHANGED <<planVars, batchVars, restVars>>

InitCal ==
    /\ left = RInt(0)
    /\ right = RInt(2)
    /\ probes = <<>>
    /\ duration_scale = RInt(1)
    /\ cal_pc = "loop"
    /\ PlanIdle
    /\ BatchIdle
    /\ RestIdle

NextCal == CalibrateProbe \/ CalibrateFinish

SpecCal == InitCal /\ [][NextCal]_vars

\* the search is sequential code: it keeps running until the loop exits
SpecCalFair == SpecCal /\ WF_vars(NextCal)

(***************************************************************************)
(* MPlayerBackend.load_file: the parsing of midentify's output and what    *)
(* follows the calibration.  A line is a sequence of tokens, "=" and "\\"  *)
(* being the characters the code looks for; a dict is a function from its  *)
(* keys to its values.                                                     *)
(***************************************************************************)
\* str.split(sep): the pieces between the occurrences of sep
RECURSIVE Split(_, _)
Split(line, sep) ==
    IF \A i \in 1..Len(line) : line[i] # sep
    THEN <<line>>
    ELSE LET i == CHOOSE k \in 1..Len(line) :
                      line[k] = sep /\ \A j \in 1..(k - 1) : line[j] # sep
         IN  <<SubSeq(line, 1, i - 1)>> \o Split(SubSeq(line, i + 1, Len(line)), sep)

\* value.replace("\\", "")
StripBackslashes(value) == SelectSeq(value, LAMBDA t : t # "\\")

\* the texts float() and int() accept, with their values
Numerals ==
    [t \in {"10", "25", "800", "640", "1000.000"} |->
        CASE t = "10" -> 10
          [] t = "25" -> 25
          [] t = "800" -> 800
          [] t = "640" -> 640
          [] t = "1000.000" -> 1000]

\* the texts int() accepts
IntNumerals == {"10", "25", "800", "640"}

\* info_conv: key of midentify -> (name of the field, conversion)
info_conv ==
    [k \in {"ID_LENGTH", "ID_VIDEO_WIDTH", "ID_VIDEO_HEIGHT", "ID_VIDEO_FPS",
            "ID_VIDEO_BITRATE", "ID_VIDEO_FORMAT", "ID_AUDIO_NCH",
            "ID_AUDIO_RATE", "ID_AUDIO_BITRATE", "ID_AUDIO_CODEC"} |->
        CASE k = "ID_LENGTH" -> <<"duration", "float">>
          [] k = "ID_VIDEO_WIDTH" -> <<"width", "int">>
          [] k = "ID_VIDEO_HEIGHT" -> <<"height", "int">>
          [] k = "ID_VIDEO_FPS" -> <<"video_framerate", "float">>
          [] k = "ID_VIDEO_BITRATE" -> <<"video_bitrate", "float">>
          [] k = "ID_VIDEO_FORMAT" -> <<"video_codec", "str">>
          [] k = "ID_AUDIO_NCH" -> <<"audio_channels", "int">>
          [] k = "ID_AUDIO_RATE" -> <<"audio_rate", "float">>
          [] k = "ID_AUDIO_BITRATE" -> <<"audio_bitrate", "float">>
          [] k = "ID_AUDIO_CODEC" -> <<"audio_codec", "str">>]

\* key in info_conv
KnownKey(key) == Len(key) = 1 /\ key[1] \in DOMAIN info_conv

\* does info_conv[key][1](value) return (or raise ValueError)?
Converts(conv, value) ==
    CASE conv = "str" -> TRUE
      [] conv = "float" -> Len(value) = 1 /\ value[1] \in DOMAIN Numerals
      [] conv = "int" -> Len(value) = 1 /\ value[1] \in IntNumerals

\* info_conv[key][1](value), where it returns
Converted(conv, value) ==
    CASE conv = "str" -> value
      [] conv = "float" -> RInt(Numerals[value[1]])
      [] conv = "int" -> Numerals[value[1]]

\* d[k] = v
DictPut(d, k, v) == [x \in DOMAIN d \cup {k} |-> IF x = k THEN v ELSE d[x]]

\* del d[k], for k in d
DictDel(d, k) == [x \in DOMAIN d \ {k} |-> d[x]]

\* the unpacking (key, value) = line.split("=") does not raise
Unpacks(line) == Len(Split(line, "=")) = 2

\* one line of the for loop raises ValueError
LineRaises(line) ==
    \/ ~Unpacks(line)
    \/ /\ KnownKey(Split(line, "=")[1])
       /\ ~Converts(info_conv[Split(line, "=")[1][1]][2],
                    StripBackslashes(Split(line, "=")[2]))

\* info after a line that does not raise
InfoAfterLine(info, line) ==
    LET key == Split(line, "=")[1]
        value == StripBackslashes(Split(line, "=")[2])
    IN  IF KnownKey(key)
        THEN DictPut(info, info_conv[key[1]][1],
                     Converted(info_conv[key[1]][2], value))
        ELSE info

\* one iteration of "for line in output.decode().splitlines()"
ParseLine ==
    /\ ld_pc = "parse"
    /\ ld_idx <= Len(ld_output)
    /\ IF LineRaises(ld_output[ld_idx])
       THEN /\ ld_pc' = "ValueError"
            /\ UNCHANGED <<ld_idx, ld_info, ld_parsed>>
       ELSE /\ ld_info' = InfoAfterLine(ld_info, ld_output[ld_idx])
            /\ ld_parsed' = ld_info'
            /\ ld_idx' = ld_idx + 1
            /\ UNCHANGED ld_pc
    /\ UNCHANGED <<ld_output, ld_result>>
    /\ UNCHANGED <<planVars, batchVars, calVars, nameVars, gstVars, mcVars>>

\* info["video_framerate"] == 1000
IsSentinel(info) == info["video_framerate"] = RInt(1000)

\* after the for loop: self.duration_scale = 1 and the test of the framerate
SentinelCheck ==
    /\ ld_pc = "parse"
    /\ ld_idx > Len(ld_output)
    /\ IF "video_framerate" \notin DOMAIN ld_info
       THEN /\ ld_pc' = "KeyError"
            /\ duration_scale' = RInt(1)
            /\ UNCHANGED <<left, right, probes, cal_pc, ld_result>>
       ELSE IF IsSentinel(ld_info)
       THEN /\ ld_pc' = "calibrate"
            /\ duration_scale' = RInt(1)
            /\ left' = RInt(0)
            /\ right' = RInt(2)
            /\ probes' = <<>>
            /\ cal_pc' = "loop"
            /\ UNCHANGED ld_result
       ELSE /\ ld_pc' = "returned"
            /\ ld_result' = ld_info
            /\ duration_scale' = RInt(1)
            /\ UNCHANGED <<left, right, probes, cal_pc>>
    /\ UNCHANGED <<ld_output, ld_idx, ld_info, ld_parsed>>
    /\ UNCHANGED <<planVars, batchVars, nameVars, gstVars, mcVars>>

\* one iteration of the search within load_file: info["duration"] is read
\* for the probing capture
LoadProbe ==
    /\ ld_pc = "calibrate"
    /\ "duration" \in DOMAIN ld_info
    /\ CalibrateProbe

\* the first iteration when no ID_LENGTH line was parsed
LoadProbeKeyError ==
    /\ ld_pc = "calibrate"
    /\ cal_pc = "loop"
    /\ LoopCondition
    /\ "duration" \notin DOMAIN ld_info
    /\ ld_pc' = "KeyError"
    /\ UNCHANGED <<ld_output, ld_idx, ld_info, ld_parsed, ld_result>>
    /\ UNCHANGED <<planVars, batchVars, calVars, nameVars, gstVars, mcVars>>

\* the end of the search within load_file
LoadScale ==
    /\ ld_pc = "calibrate"
    /\ CalibrateFinish

\* info["duration"] *= self.duration_scale
Rescaled(d, scale) == RMul(d, scale)

\* after the search: the duration is rescaled, the two fields are deleted
\* and the dict is returned
LoadFinish ==
    /\ ld_pc = "calibrate"
    /\ cal_pc = "done"
    /\ LET scaled == DictPut(ld_info, "duration",
                             Rescaled(ld_info["duration"], duration_scale))
           cut == DictDel(scaled, "video_framerate")
       IN  IF "video_bitrate" \in DOMAIN cut
           THEN /\ ld_info' = DictDel(cut, "video_bitrate")
                /\ ld_result' = ld_info'
                /\ ld_pc' = "returned"
           ELSE /\ ld_info' = cut
                /\ ld_pc' = "KeyError"
                /\ UNCHANGED ld_result
    /\ UNCHANGED <<ld_output, ld_idx, ld_parsed>>
    /\ UNCHANGED <<planVars, batchVars, calVars, nameVars, gstVars, mcVars>>

\* the lines midentify may print
ProbeLines ==
    {<<"ID_LENGTH", "=", "10">>,
     <<"ID_LENGTH", "=">>,
     <<"ID_VIDEO_FPS", "=", "1000.000">>,
     <<"ID_VIDEO_FPS", "=", "25">>,
     <<"ID_VIDEO_BITRATE", "=", "800">>,
     <<"ID_VIDEO_FORMAT", "=", "XV", "\\", "ID">>,
     <<"ID_FILENAME", "=", "a.avi">>,
     <<"ID_FILENAME", "=", "a", "=", "b.avi">>,
     <<"Playing a.avi">>}

InitLoad ==
    /\ ld_output \in SeqsUpTo(ProbeLines, MaxLines)
    /\ ld_idx = 1
    /\ ld_info = <<>>
    /\ ld_parsed = <<>>
    /\ ld_result = <<>>
    /\ ld_pc = "parse"
    /\ PlanIdle
    /\ BatchIdle
    /\ CalIdle
    /\ NameIdle
    /\ GstIdle
    /\ MCapIdle

NextLoad ==
    \/ ParseLine
    \/ SentinelCheck
    \/ LoadProbe
    \/ LoadProbeKeyError
    \/ LoadScale
    \/ LoadFinish

SpecLoad == InitLoad /\ [][NextLoad]_vars

(***************************************************************************)
(* GStreamerBackend: the caller's thread (load_file, capture_frame,        *)
(* unload_file), the main-loop thread that dispatches the bus messages to  *)
(* on_message, and the pipeline that posts them.  Each statement that      *)
(* reads or writes self._capture, self.info or the pipeline state is a     *)
(* step of its thread; self._capture and self.info are looked up anew by   *)
(* every statement.  The dict made by the load of the k-th file is dict k. *)
(***************************************************************************)
\* value of a field of an info dict: which file it describes, and where
\* it came from
InfoValue(file, origin) == [file |-> file, origin |-> origin]

\* the timestamp the pipeline gives to the frame of the k-th capture
TimestampOf(k) == k

\* the name multifilesink gives to the file of the k-th capture
OutputFileOf(k) == <<"output-", k, ".png">>

\* the tags a message may carry, recognized or not
TagNames == {"video-codec", "title", "container-format"}

\* tag_name in tag_conv
Recognized(name) == name \in {"video-codec", "audio-codec", "title", "bitrate"}

\* tag_conv[tag_name]
tag_conv(name) ==
    CASE name = "video-codec" -> "video_codec"
      [] name = "audio-codec" -> "audio_codec"
      [] name = "title" -> "title"
      [] name = "bitrate" -> "audio_bitrate"

\* the messages of the bus
TagMessage(file, name) == [type |-> "TAG", file |-> file, name |-> name, cap |-> 0]
FrameMessage(file, k) == [type |-> "ELEMENT", file |-> file, name |-> "multi-file-sink", cap |-> k]
ErrorMessage(file, k) == [type |-> "ERROR", file |-> file, name |-> "error", cap |-> k]

\* one pipeline mutation, with the thread that made it
Mutation(thread, op, k) == [thread |-> thread, op |-> op, cap |-> k]

\* the state a handled frame-written message must not set
FrameWrittenStatePlaying == "PLAYING"

\* the state on_message sets after a frame was written
FrameWrittenState == "PAUSED"

\* one handled message, with what became of it
Handled(msg, outcome, into, at, k) ==
    [msg |-> msg, outcome |-> outcome, into |-> into, waiting |-> at,
     during |-> k]

\* ---- the caller's thread

\* load_file up to self.player.set_state(Gst.State.PAUSED)
LoadStart ==
    /\ g_pc = "idle"
    /\ ~g_loaded
    /\ g_file < MaxFiles
    /\ g_file' = g_file + 1
    /\ player_state' = "PAUSED"
    /\ g_mutations' = Append(g_mutations, Mutation("caller", "PAUSED", g_cap))
    /\ g_pc' = "load_paused"
    /\ g_queryable' \in BOOLEAN
    /\ g_polls' = 0
    /\ UNCHANGED <<g_loaded, g_cap, g_capture_set, g_capture, g_self_info,
                   g_infos, g_snapshot, g_results, g_posted, bus, w_pc, w_msg,
                   g_handled>>
    /\ UNCHANGED <<planVars, batchVars, calVars, nameVars, loadVars, mcVars>>

\* self.info = {}
LoadNewInfo ==
    /\ g_pc = "load_paused"
    /\ g_self_info' = g_file
    /\ g_infos' = [g_infos EXCEPT ![g_file] = <<>>]
    /\ g_pc' = "load_poll"
    /\ UNCHANGED <<g_file, g_loaded, g_cap, player_state, g_mutations,
                   g_capture_set, g_capture, g_snapshot, g_results, g_posted,
                   bus, w_pc, w_msg, g_handled>>
    /\ UNCHANGED <<g_queryable, g_polls>>
    /\ UNCHANGED <<planVars, batchVars, calVars, nameVars, loadVars, mcVars>>

\* the structures a source pad of the decoder can carry as its current caps
VideoCap == [name |-> "video/x-raw",
             fields |-> {"format", "width", "height", "interlaced", "framerate"}]
AudioCap == [name |-> "audio/x-raw", fields |-> {"format", "rate", "channels"}]

\* decoder.srcpads of a file: none, an audio pad, a video and an audio pad
DecoderPads == {{}, {AudioCap}, {VideoCap, AudioCap}}

video_info_conv(name) ==
    CASE name = "width" -> "width"
      [] name = "height" -> "height"
      [] name = "framerate" -> "video_framerate"
      [] name = "interlaced" -> "video_interlaced"

audio_info_conv(name) ==
    CASE name = "channels" -> "audio_channels"
      [] name = "rate" -> "audio_rate"

\* the keys the loop over the fields of one structure writes
CapKeys(cap) ==
    IF SubSeq(cap.name, 1, 5) = "video"
    THEN {video_info_conv(name) :
             name \in cap.fields \cap {"width", "height", "framerate", "interlaced"}}
    ELSE IF SubSeq(cap.name, 1, 5) = "audio"
    THEN {audio_info_conv(name) : name \in cap.fields \cap {"channels", "rate"}}
    ELSE {}

\* the fields load_file writes itself: the duration, and for every source
\* pad of the decoder the fields of its caps that the tables name
InfoWithCaps(info, file, pads) ==
    LET queried == DictPut(info, "duration", InfoValue(file, "query"))
        keys == UNION {CapKeys(cap) : cap \in pads}
    IN  [k \in DOMAIN queried \cup keys |->
            IF k \in keys THEN InfoValue(file, "caps") ELSE queried[k]]

\* the poll of query_duration succeeds; the caps are read; return self.info
LoadReturn ==
    /\ g_pc = "load_poll"
    /\ g_queryable
    /\ \E pads \in DecoderPads :
          g_infos' = [g_infos EXCEPT ![g_self_info] = InfoWithCaps(@, g_file, pads)]
    /\ g_snapshot' = [g_snapshot EXCEPT ![g_self_info] = g_infos'[g_self_info]]
    /\ g_loaded' = TRUE
    /\ g_pc' = "idle"
    /\ g_polls' = 0
    /\ UNCHANGED <<g_file, g_cap, player_state, g_mutations, g_capture_set,
                   g_capture, g_self_info, g_results, g_posted, bus, w_pc,
                   w_msg, g_handled, g_queryable>>
    /\ UNCHANGED <<planVars, batchVars, calVars, nameVars, loadVars, mcVars>>

\* query_success is false: time.sleep(0.1); continue.  The loop has no
\* bound; the model counts its rounds up to MaxPolls and lets it go on.
LoadPollRetry ==
    /\ g_pc = "load_poll"
    /\ g_polls' = IF g_polls < MaxPolls THEN g_polls + 1 ELSE g_polls
    /\ g_pc' = "load_sleep"
    /\ UNCHANGED <<g_file, g_loaded, g_cap, player_state, g_mutations,
                   g_capture_set, g_capture, g_self_info, g_infos, g_snapshot,
                   g_results, g_posted, bus, w_pc, w_msg, g_handled,
                   g_queryable>>
    /\ UNCHANGED <<planVars, batchVars, calVars, nameVars, loadVars, mcVars>>

\* time.sleep(0.1) returns: the next round of the loop
LoadPollWake ==
    /\ g_pc = "load_sleep"
    /\ g_pc' = "load_poll"
    /\ UNCHANGED <<g_file, g_loaded, g_cap, player_state, g_mutations,
                   g_capture_set, g_capture, g_self_info, g_infos, g_snapshot,
                   g_results, g_posted, bus, w_pc, w_msg, g_handled,
                   g_queryable, g_polls>>
    /\ UNCHANGED <<planVars, batchVars, calVars, nameVars, loadVars, mcVars>>

\* unload_file; a pipeline that goes to NULL flushes its bus
Unload ==
    /\ g_pc = "idle"
    /\ g_loaded
    /\ player_state' = "NULL"
    /\ g_mutations' = Append(g_mutations, Mutation("caller", "NULL", g_cap))
    /\ bus' = <<>>
    /\ g_loaded' = FALSE
    /\ UNCHANGED <<g_pc, g_file, g_cap, g_capture_set, g_capture, g_self_info,
                   g_infos, g_snapshot, g_results, g_posted, w_pc, w_msg,
                   g_handled>>
    /\ UNCHANGED <<g_queryable, g_polls>>
    /\ UNCHANGED <<planVars, batchVars, calVars, nameVars, loadVars, mcVars>>

\* capture_frame: self.player.seek_simple(...)
CaptureSeek ==
    /\ g_pc = "idle"
    /\ g_loaded
    /\ g_cap < MaxCaptures
    /\ g_cap' = g_cap + 1
    /\ g_mutations' = Append(g_mutations, Mutation("caller", "seek", g_cap + 1))
    /\ g_pc' = "cap_seeked"
    /\ UNCHANGED <<g_file, g_loaded, player_state, g_capture_set, g_capture,
                   g_self_info, g_infos, g_snapshot, g_results, g_posted, bus,
                   w_pc, w_msg, g_handled>>
    /\ UNCHANGED <<g_queryable, g_polls>>
    /\ UNCHANGED <<planVars, batchVars, calVars, nameVars, loadVars, mcVars>>

\* self.player.set_state(Gst.State.PLAYING)
CapturePlay ==
    /\ g_pc = "cap_seeked"
    /\ player_state' = "PLAYING"
    /\ g_mutations' = Append(g_mutations, Mutation("caller", "PLAYING", g_cap))
    /\ g_pc' = "cap_playing"
    /\ UNCHANGED <<g_file, g_loaded, g_cap, g_capture_set, g_capture,
                   g_self_info, g_infos, g_snapshot, g_results, g_posted, bus,
                   w_pc, w_msg, g_handled>>
    /\ UNCHANGED <<g_queryable, g_polls>>
    /\ UNCHANGED <<planVars, batchVars, calVars, nameVars, loadVars, mcVars>>

\* self._capture = {"done": False}
CaptureReset ==
    /\ g_pc = "cap_playing"
    /\ g_capture_set' = TRUE
    /\ g_capture' = [k \in {"done"} |-> FALSE]
    /\ g_pc' = "cap_poll"
    /\ UNCHANGED <<g_file, g_loaded, g_cap, player_state, g_mutations,
                   g_self_info, g_infos, g_snapshot, g_results, g_posted, bus,
                   w_pc, w_msg, g_handled>>
    /\ UNCHANGED <<g_queryable, g_polls>>
    /\ UNCHANGED <<planVars, batchVars, calVars, nameVars, loadVars, mcVars>>

\* what capture_frame does once the poll has seen done: the file is moved
\* and the timestamp returned, each read of a missing key a KeyError
CaptureOutcome(capture) ==
    IF "file_name" \notin DOMAIN capture \/ "capture_time" \notin DOMAIN capture
    THEN [outcome |-> "KeyError", time |-> 0]
    ELSE [outcome |-> "returned", time |-> capture["capture_time"]]

\* the poll sees self._capture["done"]; the rest of capture_frame
CaptureReturn ==
    /\ g_pc = "cap_poll"
    /\ g_capture["done"]
    /\ g_results' = Append(g_results,
           [cap |-> g_cap,
            outcome |-> CaptureOutcome(g_capture).outcome,
            time |-> CaptureOutcome(g_capture).time,
            state |-> player_state])
    /\ g_pc' = "idle"
    /\ UNCHANGED <<g_file, g_loaded, g_cap, player_state, g_mutations,
                   g_capture_set, g_capture, g_self_info, g_infos, g_snapshot,
                   g_posted, bus, w_pc, w_msg, g_handled>>
    /\ UNCHANGED <<g_queryable, g_polls>>
    /\ UNCHANGED <<planVars, batchVars, calVars, nameVars, loadVars, mcVars>>

CallerNext ==
    \/ LoadStart
    \/ LoadNewInfo
    \/ LoadPollRetry
    \/ LoadPollWake
    \/ LoadReturn
    \/ Unload
    \/ CaptureSeek
    \/ CapturePlay
    \/ CaptureReset
    \/ CaptureReturn

\* ---- the pipeline: it posts messages on the bus

\* a tag of the file being played
PostTag ==
    /\ player_state # "NULL"
    /\ g_posted.tags < MaxTags
    /\ \E name \in TagNames : bus' = Append(bus, TagMessage(g_file, name))
    /\ g_posted' = [g_posted EXCEPT !.tags = @ + 1]
    /\ UNCHANGED <<g_pc, g_file, g_loaded, g_cap, player_state, g_mutations,
                   g_capture_set, g_capture, g_self_info, g_infos, g_snapshot,
                   g_results, w_pc, w_msg, g_handled>>
    /\ UNCHANGED <<g_queryable, g_polls>>
    /\ UNCHANGED <<planVars, batchVars, calVars, nameVars, loadVars, mcVars>>

\* multifilesink has written the frame of a capture: only while PLAYING,
\* and once for each seek
PostFrame ==
    /\ player_state = "PLAYING"
    /\ g_posted.frames < g_cap
    /\ bus' = Append(bus, FrameMessage(g_file, g_posted.frames + 1))
    /\ g_posted' = [g_posted EXCEPT !.frames = @ + 1]
    /\ UNCHANGED <<g_pc, g_file, g_loaded, g_cap, player_state, g_mutations,
                   g_capture_set, g_capture, g_self_info, g_infos, g_snapshot,
                   g_results, w_pc, w_msg, g_handled>>
    /\ UNCHANGED <<g_queryable, g_polls>>
    /\ UNCHANGED <<planVars, batchVars, calVars, nameVars, loadVars, mcVars>>

\* an element of the pipeline reports an error
PostError ==
    /\ player_state # "NULL"
    /\ g_posted.errors < MaxErrors
    /\ bus' = Append(bus, ErrorMessage(g_file, g_cap))
    /\ g_posted' = [g_posted EXCEPT !.errors = @ + 1]
    /\ UNCHANGED <<g_pc, g_file, g_loaded, g_cap, player_state, g_mutations,
                   g_capture_set, g_capture, g_self_info, g_infos, g_snapshot,
                   g_results, w_pc, w_msg, g_handled>>
    /\ UNCHANGED <<g_queryable, g_polls>>
    /\ UNCHANGED <<planVars, batchVars, calVars, nameVars, loadVars, mcVars>>

PipelineNext ==
    \/ PostTag
    \/ PostFrame
    \/ PostError

\* ---- the main-loop thread: on_message

\* the bus watch of the main loop takes the oldest message off the bus and
\* calls on_message(bus, message) with it; the handler's statements follow
\* as steps of their own, the caller's thread running in between
on_message ==
    /\ w_pc = "idle"
    /\ bus # <<>>
    /\ w_msg' = Head(bus)
    /\ bus' = Tail(bus)
    /\ w_pc' = CASE Head(bus).type = "TAG" -> "tag"
                 [] Head(bus).type = "ELEMENT" -> "capture_time"
                 [] Head(bus).type = "ERROR" -> "error"
    /\ UNCHANGED <<g_pc, g_file, g_loaded, g_cap, player_state, g_mutations,
                   g_capture_set, g_capture, g_self_info, g_infos, g_snapshot,
                   g_results, g_posted, g_handled>>
    /\ UNCHANGED <<g_queryable, g_polls>>
    /\ UNCHANGED <<planVars, batchVars, calVars, nameVars, loadVars, mcVars>>

\* a TAG message: self.info[tag_conv[tag_name]] = tag_value for a recognized
\* tag, into the dict self.info names when the statement runs;
\* AttributeError while self.info does not exist
HandleTag ==
    /\ w_pc = "tag"
    /\ IF ~Recognized(w_msg.name)
       THEN /\ g_handled' = Append(g_handled, Handled(w_msg, "ignored", 0, g_pc, g_cap))
            /\ UNCHANGED g_infos
       ELSE IF g_self_info = 0
       THEN /\ g_handled' = Append(g_handled,
                                   Handled(w_msg, "AttributeError", 0, g_pc, g_cap))
            /\ UNCHANGED g_infos
       ELSE /\ g_infos' = [g_infos EXCEPT ![g_self_info] =
                              DictPut(@, tag_conv(w_msg.name),
                                      InfoValue(w_msg.file, "tag"))]
            /\ g_handled' = Append(g_handled,
                                   Handled(w_msg, "ok", g_self_info, g_pc, g_cap))
    /\ w_pc' = "idle"
    /\ w_msg' = <<>>
    /\ UNCHANGED <<g_pc, g_file, g_loaded, g_cap, player_state, g_mutations,
                   g_capture_set, g_capture, g_self_info, g_snapshot, g_results,
                   g_posted, bus>>
    /\ UNCHANGED <<g_queryable, g_polls>>
    /\ UNCHANGED <<planVars, batchVars, calVars, nameVars, loadVars, mcVars>>

\* a frame-written message: self._capture["capture_time"] = ...;
\* AttributeError while self._capture does not exist
HandleFrameTime ==
    /\ w_pc = "capture_time"
    /\ IF g_capture_set
       THEN /\ g_capture' = DictPut(g_capture, "capture_time",
                                    TimestampOf(w_msg.cap))
            /\ w_pc' = "file_name"
            /\ UNCHANGED <<g_handled, w_msg>>
       ELSE /\ g_handled' = Append(g_handled,
                                   Handled(w_msg, "AttributeError", 0, g_pc, g_cap))
            /\ w_pc' = "idle"
            /\ w_msg' = <<>>
            /\ UNCHANGED g_capture
    /\ UNCHANGED <<g_pc, g_file, g_loaded, g_cap, player_state, g_mutations,
                   g_capture_set, g_self_info, g_infos, g_snapshot, g_results,
                   g_posted, bus>>
    /\ UNCHANGED <<g_queryable, g_polls>>
    /\ UNCHANGED <<planVars, batchVars, calVars, nameVars, loadVars, mcVars>>

\* self._capture["file_name"] = structure["filename"]
HandleFrameName ==
    /\ w_pc = "file_name"
    /\ g_capture' = DictPut(g_capture, "file_name", OutputFileOf(w_msg.cap))
    /\ w_pc' = "done"
    /\ UNCHANGED <<g_pc, g_file, g_loaded, g_cap, player_state, g_mutations,
                   g_capture_set, g_self_info, g_infos, g_snapshot, g_results,
                   g_posted, bus, w_msg, g_handled>>
    /\ UNCHANGED <<g_queryable, g_polls>>
    /\ UNCHANGED <<planVars, batchVars, calVars, nameVars, loadVars, mcVars>>

\* self._capture["done"] = True
HandleFrameDone ==
    /\ w_pc = "done"
    /\ g_capture' = DictPut(g_capture, "done", TRUE)
    /\ w_pc' = "set_state"
    /\ UNCHANGED <<g_pc, g_file, g_loaded, g_cap, player_state, g_mutations,
                   g_capture_set, g_self_info, g_infos, g_snapshot, g_results,
                   g_posted, bus, w_msg, g_handled>>
    /\ UNCHANGED <<g_queryable, g_polls>>
    /\ UNCHANGED <<planVars, batchVars, calVars, nameVars, loadVars, mcVars>>

\* self.player.set_state(Gst.State.PAUSED), the end of the handler
HandleFramePause ==
    /\ w_pc = "set_state"
    /\ player_state' = FrameWrittenState
    /\ g_mutations' = Append(g_mutations,
                             Mutation("worker", FrameWrittenState, w_msg.cap))
    /\ g_handled' = Append(g_handled, Handled(w_msg, "ok", 0, g_pc, g_cap))
    /\ w_pc' = "idle"
    /\ w_msg' = <<>>
    /\ UNCHANGED <<g_pc, g_file, g_loaded, g_cap, g_capture_set, g_capture,
                   g_self_info, g_infos, g_snapshot, g_results, g_posted, bus>>
    /\ UNCHANGED <<g_queryable, g_polls>>
    /\ UNCHANGED <<planVars, batchVars, calVars, nameVars, loadVars, mcVars>>

\* an ERROR message: self.main_loop.quit(); raise error.  The exception is
\* raised in the main-loop thread, whose loop then ends.
HandleError ==
    /\ w_pc = "error"
    /\ g_handled' = Append(g_handled, Handled(w_msg, "raised", 0, g_pc, g_cap))
    /\ w_pc' = "quit"
    /\ w_msg' = <<>>
    /\ UNCHANGED <<g_pc, g_file, g_loaded, g_cap, player_state, g_mutations,
                   g_capture_set, g_capture, g_self_info, g_infos, g_snapshot,
                   g_results, g_posted, bus>>
    /\ UNCHANGED <<g_queryable, g_polls>>
    /\ UNCHANGED <<planVars, batchVars, calVars, nameVars, loadVars, mcVars>>

WorkerNext ==
    \/ on_message
    \/ HandleTag
    \/ HandleFrameTime
    \/ HandleFrameName
    \/ HandleFrameDone
    \/ HandleFramePause
    \/ HandleError

\* the backend after __init__: neither self._capture nor self.info exists
InitGst ==
    /\ g_pc = "idle"
    /\ g_file = 0
    /\ g_loaded = FALSE
    /\ g_cap = 0
    /\ player_state = "NULL"
    /\ g_mutations = <<>>
    /\ g_capture_set = FALSE
    /\ g_capture = <<>>
    /\ g_self_info = 0
    /\ g_infos = [f \in 1..MaxFiles |-> <<>>]
    /\ g_snapshot = [f \in 1..MaxFiles |-> <<>>]
    /\ g_results = <<>>
    /\ g_posted = [tags |-> 0, frames |-> 0, errors |-> 0]
    /\ bus = <<>>
    /\ w_pc = "idle"
    /\ w_msg = <<>>
    /\ g_handled = <<>>
    /\ g_queryable = TRUE
    /\ g_polls = 0
    /\ PlanIdle
    /\ BatchIdle
    /\ CalIdle
    /\ NameIdle
    /\ LoadIdle
    /\ MCapIdle

NextGst ==
    \/ CallerNext
    \/ PipelineNext
    \/ WorkerNext

SpecGst == InitGst /\ [][NextGst]_vars

\* each thread runs on while it has a step to take
SpecGstFair == SpecGst /\ WF_vars(CallerNext) /\ WF_vars(WorkerNext)

(***************************************************************************)
(* MPlayerBackend.capture_frame and the files of the temporary directory.  *)
(* mplayer writes its frame to the fixed name 00000001.png, or writes      *)
(* nothing; a call without destination is a probe of the calibration.      *)
(***************************************************************************)
\* the destination argument: None, or the path of a frame file
NoDestination == [tag |-> "None", n |-> 0]
Destination(k) == [tag |-> "path", n |-> k]

\* expected_output_file.is_file() once mplayer has ended
ExistsAfterRun(existed, produced) == existed \/ produced

\* a capture_frame that leaves the file of a probe where it is
ExistsAfterReturnNoUnlink(exists, destination) ==
    exists /\ destination = NoDestination

\* does 00000001.png exist when capture_frame returns?  It is not there,
\* or it was moved to the destination, or it was unlinked
ExistsAfterReturn(exists, destination) ==
    IF ~exists THEN FALSE
    ELSE IF destination # NoDestination THEN FALSE
    ELSE FALSE

\* the destination files after shutil.move
FramesAfterReturn(frames, exists, destination) ==
    IF exists /\ destination # NoDestination
    THEN frames \cup {destination.n}
    ELSE frames

\* return False / return capture_time
MPlayerCaptureResult(exists, capture_time) ==
    IF ~exists THEN PyFalse ELSE PyNum(capture_time)

\* one call of capture_frame, from the start of mplayer to the return
MPlayerCaptureFrame ==
    /\ Len(mc_log) < MaxCalls
    /\ \E capture_time \in RequestTimes :
       \E destination \in {NoDestination, Destination(Len(mc_log) + 1)} :
       \E produced \in BOOLEAN :
          LET exists == ExistsAfterRun(mc_exists, produced)
          IN  /\ mc_exists' = ExistsAfterReturn(exists, destination)
              /\ mc_frames' = FramesAfterReturn(mc_frames, exists, destination)
              /\ mc_log' = Append(mc_log,
                     [time |-> capture_time,
                      destination |-> destination,
                      existed |-> mc_exists,
                      produced |-> produced,
                      result |-> MPlayerCaptureResult(exists, capture_time)])
    /\ UNCHANGED <<planVars, batchVars, calVars, nameVars, loadVars, gstVars>>

\* the temporary directory is new when the backend is made
InitMCap ==
    /\ mc_exists = FALSE
    /\ mc_frames = {}
    /\ mc_log = <<>>
    /\ PlanIdle
    /\ BatchIdle
    /\ CalIdle
    /\ NameIdle
    /\ LoadIdle
    /\ GstIdle

NextMCap == MPlayerCaptureFrame

SpecMCap == InitMCap /\ [][NextMCap]_vars

(***************************************************************************)
(* Properties of the batch loop.                                           *)
(***************************************************************************)
\* the calls that did not return the failure value False
Succeeded(c) == c.result.tag = "num"

RECURSIVE SuccessesOf(_)
SuccessesOf(log) ==
    IF log = <<>> THEN <<>>
    ELSE LET rest == SuccessesOf(SubSeq(log, 1, Len(log) - 1))
             c == log[Len(log)]
         IN  IF Succeeded(c) THEN Append(rest, c.result.n) ELSE rest

\* C1: capture_frames calls capture_frame exactly once per requested time,
\* in request order, and returns exactly the successful captures in that
\* order; so the result is no longer than the request, and is empty when
\* every capture returned the failure value.
C1_BatchReturnsSuccesses ==
    batch_pc = "returned" =>
        /\ Len(calls) = Len(batch_times)
        /\ \A i \in 1..Len(calls) : calls[i].time = batch_times[i]
        /\ [j \in 1..Len(frame_files) |-> frame_files[j].capture_time]
              = SuccessesOf(calls)
        /\ Len(frame_files) <= Len(batch_times)
        /\ (\A i \in 1..Len(calls) : ~Succeeded(calls[i])) => frame_files = <<>>

\* C2: every capture_frame call that returned a timestamp t >= 0, t = 0
\* included, has its (file, t) entry in the result; only calls that returned
\* the failure value are dropped.
C2_SuccessAtZeroRecorded ==
    batch_pc = "returned" =>
        \A i \in 1..Len(calls) :
            Succeeded(calls[i]) =>
                \E j \in 1..Len(frame_files) :
                    /\ frame_files[j].file = calls[i].file
                    /\ frame_files[j].capture_time = calls[i].result.n

(***************************************************************************)
(* Properties of the calibration search.                                   *)
(***************************************************************************)
\* the probe outcomes so far are those of a capture that succeeds exactly
\* for scales <= 0.7
ProbesFollowThreshold ==
    \A i \in 1..Len(probes) : probes[i].ok <=> RLe(probes[i].middle, Rat(7, 10))

\* C3 as stated: with a probe succeeding exactly for scale <= 0.7 the final
\* scale lies in [0.7 - EPS, 0.7] = [0.699, 0.7].
C3_ScaleWithinEps ==
    (cal_pc = "done" /\ probes # <<>> /\ ProbesFollowThreshold) =>
        /\ RLe(Rat(699, 1000), duration_scale)
        /\ RLe(duration_scale, Rat(7, 10))

\* C3 as amended: with a probe succeeding exactly for scale <= 0.7 the final
\* scale lies in [0.7 - 2 * EPS, 0.7] = [0.698, 0.7].
C3_ScaleWithinTwoEps ==
    (cal_pc = "done" /\ probes # <<>> /\ ProbesFollowThreshold) =>
        /\ RLe(Rat(698, 1000), duration_scale)
        /\ RLe(duration_scale, Rat(7, 10))

C3_Witness ==
    /\ cal_pc = "done"
    /\ probes # <<>>
    /\ ProbesFollowThreshold
    /\ \E i \in 1..Len(probes) : probes[i].ok
    /\ \E i \in 1..Len(probes) : ~probes[i].ok
    /\ duration_scale = Rat(178923, 256000)

\* C4: for every probe function the final scale lies strictly between 0
\* and 2.
C4_ScaleInOpenInterval ==
    (cal_pc = "done" /\ probes # <<>>) =>
        /\ RLt(RInt(0), duration_scale)
        /\ RLt(duration_scale, RInt(2))

\* C5: the search terminates for every probe function: at most 11 probes
\* are made, each at a midpoint inside [0, 2]; every iteration replaces the
\* width right - left by half of it minus EPS; and the loop exits.
C5_SearchTerminates ==
    /\ [](/\ Len(probes) <= 11
          /\ \A i \in 1..Len(probes) :
                RLe(RInt(0), probes[i].middle) /\ RLe(probes[i].middle, RInt(2)))
    /\ [][(cal_pc = "loop" /\ probes' # probes) =>
            /\ RSub(right', left') = RSub(RDiv(RSub(right, left), RInt(2)), Rat(1, 1000))
            /\ RLt(RSub(right', left'), RSub(right, left))]_vars
    /\ <>(cal_pc = "done" /\ probes # <<>>)

C5_Witness ==
    /\ cal_pc = "done"
    /\ Len(probes) = 10
    /\ \A i \in 1..Len(probes) : ~probes[i].ok

(***************************************************************************)
(* Properties of the planner.  The closed forms below are written out from *)
(* the inputs alone and do not use the planner's own definitions.          *)
(***************************************************************************)
TwoPadding == RInt(1)
ValidPlanInput == RLt(TwoPadding, duration) /\ grid_rows * grid_cols >= 1
SpanOf == RSub(duration, TwoPadding)
PartOf == RDiv(SpanOf, RInt(grid_rows * grid_cols + 1))
BaseOf == RDiv(PartOf, RInt(5))
DeltaOf == RDiv(RMul(RInt(2), RSub(PartOf, BaseOf)), RInt(grid_rows * grid_cols))

StrictlyIncreasing(s) == \A i \in 1..(Len(s) - 1) : RLt(s[i], s[i + 1])

\* padding, t1, ..., tN, duration - padding
InteriorPoints(s) == <<Rat(1, 2)>> \o s \o <<RSub(duration, Rat(1, 2))>>

\* 0, padding, t1, ..., tN, duration - padding, duration
AllPoints(s) == <<RInt(0)>> \o InteriorPoints(s) \o <<duration>>

\* the j-th gap of a sequence of points
Gap(p, j) == RSub(p[j + 1], p[j])

RECURSIVE SumGaps(_, _)
SumGaps(p, j) == IF j = 0 THEN RInt(0) ELSE RAdd(SumGaps(p, j - 1), Gap(p, j))

\* C6: with focus "none", valid duration and frame_count >= 1, the k-th
\* planned time is padding + k * partLength; the times are strictly
\* increasing, consecutive gaps are equal and equal the first time minus
\* padding; 120 s in a 2x2 grid gives 24.3, 48.1, 71.9, 95.7.
C6_NoneUniform ==
    (plan_pc = "done" /\ capture_focus = "none" /\ ValidPlanInput) =>
        /\ Len(frame_times) = grid_rows * grid_cols
        /\ \A k \in 1..Len(frame_times) :
              frame_times[k] = RAdd(Rat(1, 2), RMul(RInt(k), PartOf))
        /\ StrictlyIncreasing(frame_times)
        /\ \A k \in 1..(Len(frame_times) - 1) :
              Gap(frame_times, k) = RSub(frame_times[1], Rat(1, 2))
        /\ (duration = RInt(120) /\ grid_rows * grid_cols = 4) =>
              frame_times = <<Rat(243, 10), Rat(481, 10), Rat(719, 10), Rat(957, 10)>>

C6_Witness ==
    /\ plan_pc = "done"
    /\ capture_focus = "none"
    /\ duration = RInt(120)
    /\ grid_rows = 2 /\ grid_cols = 2
    /\ frame_times = <<Rat(243, 10), Rat(481, 10), Rat(719, 10), Rat(957, 10)>>

\* C7: with focus "begin" the frame_count + 1 intervals between padding,
\* t1, ..., tN, duration - padding are base, base + delta, ...,
\* base + delta * frame_count; they sum to duration - 2 * padding, and for
\* every focus the gaps including the two padding gaps sum to duration.
C7_BeginArithmeticGaps ==
    (plan_pc = "done" /\ ValidPlanInput) =>
        /\ capture_focus = "begin" =>
              /\ Len(frame_times) = grid_rows * grid_cols
              /\ \A j \in 0..Len(frame_times) :
                    Gap(InteriorPoints(frame_times), j + 1)
                        = RAdd(BaseOf, RMul(DeltaOf, RInt(j)))
              /\ SumGaps(InteriorPoints(frame_times), Len(frame_times) + 1) = SpanOf
        /\ SumGaps(AllPoints(frame_times), Len(frame_times) + 3) = duration

C7_Witness ==
    /\ plan_pc = "done"
    /\ capture_focus = "begin"
    /\ ValidPlanInput
    /\ grid_rows * grid_cols >= 3
    /\ RLt(Gap(InteriorPoints(frame_times), 1),
           Gap(InteriorPoints(frame_times), Len(frame_times) + 1))

\* C8: the "end" plan is the "begin" plan of the same inputs with every
\* time t replaced by duration - t and the order reversed; it is in
\* increasing order and its gaps shrink towards the end of the timeline,
\* the closing gap before duration - padding being the smallest.
C8_EndMirrorsBegin ==
    (plan_pc = "done" /\ capture_focus = "end" /\ ValidPlanInput) =>
        /\ Len(frame_times) = Len(BeginTimes)
        /\ \A k \in 1..Len(frame_times) :
              frame_times[k] = RSub(duration, BeginTimes[Len(BeginTimes) + 1 - k])
        /\ StrictlyIncreasing(frame_times)
        /\ \A j \in 1..Len(frame_times) :
              RLt(Gap(InteriorPoints(frame_times), j + 1),
                  Gap(InteriorPoints(frame_times), j))
        /\ Gap(InteriorPoints(frame_times), Len(frame_times) + 1) = BaseOf

C8_Witness ==
    /\ plan_pc = "done"
    /\ capture_focus = "end"
    /\ ValidPlanInput
    /\ Len(frame_times) >= 3
    /\ frame_times[1] # RSub(duration, BeginTimes[1])

\* C9: the planner returns exactly frame_count times for every focus, the
\* empty sequence for frame_count = 0, and raises no error.
C9_LengthIsFrameCount ==
    plan_pc # "start" =>
        /\ plan_pc = "done"
        /\ Len(frame_times) = grid_rows * grid_cols

\* C10: for valid inputs and every focus the planned times are strictly
\* increasing and lie strictly between padding and duration - padding.
C10_InsidePadding ==
    (plan_pc = "done" /\ ValidPlanInput) =>
        /\ StrictlyIncreasing(frame_times)
        /\ \A k \in 1..Len(frame_times) :
              /\ RLt(frame_capture_padding, frame_times[k])
              /\ RLt(frame_times[k], RSub(duration, frame_capture_padding))

C10_Witness ==
    /\ plan_pc = "done"
    /\ ValidPlanInput
    /\ capture_focus = "end"
    /\ Len(frame_times) = MaxRows * MaxCols
    /\ RLt(RSub(duration, RInt(1)), frame_times[Len(frame_times)])

(***************************************************************************)
(* Properties of the frame file names.                                     *)
(***************************************************************************)
RECURSIVE DigitsValue(_)
DigitsValue(ds) ==
    IF ds = <<>> THEN 0
    ELSE 10 * DigitsValue(SubSeq(ds, 1, Len(ds) - 1)) + ds[Len(ds)]

\* the number of decimal digits of k >= 1
DecimalWidth(k) == CHOOSE w \in 1..10 : Pow(10, w - 1) <= k /\ k < Pow(10, w)

\* C11: for a batch of n >= 1 every file is frame-<index>.png with the index
\* zero-padded to floor(log10(n)) + 1 digits (2 for 24 frames, 1 for 9, 2
\* for 10, 3 for 100), whatever the floating-point logarithm gave.
C11_NameWidth ==
    nm_pc = "done" /\ nm_size >= 1 =>
        /\ nm_name.prefix = "frame-" /\ nm_name.suffix = ".png"
        /\ Len(nm_name.digits) = DecimalWidth(nm_size)
        /\ DigitsValue(nm_name.digits) = nm_current
        /\ nm_size = 24 => Len(nm_name.digits) = 2
        /\ nm_size = 9 => Len(nm_name.digits) = 1
        /\ nm_size = 10 => Len(nm_name.digits) = 2
        /\ nm_size = 100 => Len(nm_name.digits) = 3

C11_Witness ==
    /\ nm_pc = "done"
    /\ nm_size = 1000
    /\ nm_estimate = 2
    /\ nm_current = 7
    /\ nm_name.digits = <<0, 0, 0, 7>>

(***************************************************************************)
(* Properties of MPlayerBackend.load_file.                                 *)
(***************************************************************************)
\* load_file has ended, by a return or by an exception
LoadEnded == ld_pc \notin {"parse", "calibrate"}

\* the keys of the lines of the output that have a key and a value
KeysPrinted ==
    {Split(ld_output[i], "=")[1] : i \in {j \in 1..Len(ld_output) : Unpacks(ld_output[j])}}

\* every line of the output is key=value with a value its conversion accepts
WellFormedOutput == \A i \in 1..Len(ld_output) : ~LineRaises(ld_output[i])

\* the output has no usable metadata: no duration line or no framerate line
NoUsableMetadata ==
    /\ WellFormedOutput
    /\ \/ <<"ID_LENGTH">> \notin KeysPrinted
       \/ <<"ID_VIDEO_FPS">> \notin KeysPrinted

\* C12: a load of a file whose probe output has no usable metadata (no
\* duration line or no framerate line) ends in UnsupportedMediaError: in no
\* other error, and not by returning a StreamInfo.
C12_UnprobeableIsUnsupported ==
    LoadEnded /\ NoUsableMetadata => ld_pc = "UnsupportedMediaError"

\* the fields the lines read so far can have set
FieldsOfLinesRead ==
    {info_conv[ld_output[i][1]][1] :
        i \in {j \in 1..(ld_idx - 1) :
                  /\ Len(ld_output[j]) >= 2
                  /\ ld_output[j][2] = "="
                  /\ ld_output[j][1] \in DOMAIN info_conv}}

\* C13: a line whose key is not in the table sets no field and does not make
\* the load fail, whatever its value, a value containing "=" included; the
\* only fatal parse error is a line without any "=".
C13_OnlyMissingEqualsIsFatal ==
    /\ DOMAIN ld_parsed \subseteq FieldsOfLinesRead
    /\ ld_pc = "ValueError" =>
          \A i \in 1..Len(ld_output[ld_idx]) : ld_output[ld_idx][i] # "="

\* the parsing went through and found a duration and a framerate
ParsedWithFramerate ==
    /\ LoadEnded
    /\ ld_idx > Len(ld_output)
    /\ "duration" \in DOMAIN ld_parsed
    /\ "video_framerate" \in DOMAIN ld_parsed

\* C14: when the parsed framerate is exactly 1000, with or without a video
\* bitrate, load calibrates and returns the parsed fields with the duration
\* multiplied by the scale and without video_framerate and video_bitrate,
\* every other field as parsed; for any other framerate the scale is 1 and
\* the parsed fields are returned as they are.
C14_SentinelLoad ==
    ParsedWithFramerate =>
        IF ld_parsed["video_framerate"] = RInt(1000)
        THEN /\ ld_pc = "returned"
             /\ Len(probes) > 0
             /\ DOMAIN ld_result = DOMAIN ld_parsed \ {"video_framerate", "video_bitrate"}
             /\ ld_result["duration"] = RMul(ld_parsed["duration"], duration_scale)
             /\ \A k \in DOMAIN ld_result \ {"duration"} : ld_result[k] = ld_parsed[k]
        ELSE /\ ld_pc = "returned"
             /\ duration_scale = RInt(1)
             /\ ld_result = ld_parsed

(***************************************************************************)
(* Properties of the GStreamer backend.                                    *)
(***************************************************************************)
\* the frame-written message of capture k was handled to the end
FrameHandled(k) ==
    \E i \in DOMAIN g_handled :
        /\ g_handled[i].msg.type = "ELEMENT"
        /\ g_handled[i].msg.cap = k
        /\ g_handled[i].outcome = "ok"

\* C15: no completion is lost, in the first capture as in later ones: the
\* handler of a frame-written message never fails, once the message of the
\* current capture has been handled the poll sees done, and every
\* capture_frame that ends returns the timestamp of its own message.
C15_CompletionNeverLost ==
    /\ \A i \in DOMAIN g_handled :
          g_handled[i].msg.type = "ELEMENT" => g_handled[i].outcome = "ok"
    /\ g_pc = "cap_poll" /\ FrameHandled(g_cap) => g_capture["done"]
    /\ \A j \in DOMAIN g_results :
          /\ g_results[j].outcome = "returned"
          /\ g_results[j].time = TimestampOf(g_results[j].cap)

\* an error message was handled while the current capture_frame was polling
ErrorWhileWaiting ==
    \E i \in DOMAIN g_handled :
        /\ g_handled[i].msg.type = "ERROR"
        /\ g_handled[i].waiting = "cap_poll"
        /\ g_handled[i].during = g_cap

\* C16: an error message handled while capture_frame waits ends the wait:
\* the caller does not stay in the poll with nothing left to end it.
C16_ErrorAbortsWait ==
    g_pc = "cap_poll" /\ ErrorWhileWaiting => ENABLED CallerNext

\* C17: whenever capture_frame returns the pipeline is paused, and the pause
\* of a capture never lands after the seek or the PLAYING of a later one.
C17_PausedBeforeNextCapture ==
    /\ \A j \in DOMAIN g_results : g_results[j].state = "PAUSED"
    /\ \A i \in DOMAIN g_mutations : \A j \in DOMAIN g_mutations :
          /\ i < j
          /\ g_mutations[i].thread = "caller"
          /\ g_mutations[i].op \in {"seek", "PLAYING"}
          /\ g_mutations[j].thread = "worker"
          => g_mutations[i].cap <= g_mutations[j].cap

\* the frame-written messages handled to the end
FramesHandled ==
    {i \in DOMAIN g_handled :
        g_handled[i].msg.type = "ELEMENT" /\ g_handled[i].outcome = "ok"}

\* the pipeline mutations made by the main-loop thread
WorkerMutations == {i \in DOMAIN g_mutations : g_mutations[i].thread = "worker"}

\* C18 as stated: every pipeline mutation is made by the caller's thread.
C18_AllMutationsByCaller ==
    \A i \in DOMAIN g_mutations : g_mutations[i].thread = "caller"

\* C18: the seeks and the transitions to PLAYING and to NULL are made by
\* the caller's thread; the main-loop thread makes one mutation only, the
\* set_state(PAUSED) that ends the handling of a frame-written message, and
\* none when it handles a tag or an error message.
C18_WorkerOnlyPauses ==
    /\ \A i \in DOMAIN g_mutations :
          /\ g_mutations[i].op \in {"seek", "PLAYING", "NULL"}
                => g_mutations[i].thread = "caller"
          /\ g_mutations[i].thread = "worker" => g_mutations[i].op = "PAUSED"
    /\ Cardinality(WorkerMutations) = Cardinality(FramesHandled)

C18_Witness ==
    /\ \E i \in DOMAIN g_mutations : \E j \in DOMAIN g_mutations :
          /\ i < j
          /\ g_mutations[i] = Mutation("caller", "PLAYING", 1)
          /\ g_mutations[j] = Mutation("worker", "PAUSED", 1)
    /\ \E i \in DOMAIN g_handled : g_handled[i].msg.type = "TAG"
    /\ \E i \in DOMAIN g_handled : g_handled[i].msg.type = "ERROR"

\* C19: a dict that load_file has returned stays as it was returned.
C19_ReturnedInfoNotMutated ==
    \A f \in 1..MaxFiles : g_snapshot[f] # <<>> => g_infos[f] = g_snapshot[f]

\* C20: every recognized tag message is written into the dict of the file
\* it was posted for: into no other file's dict, and never dropped.
C20_TagsReachTheirFile ==
    \A i \in DOMAIN g_handled :
        g_handled[i].msg.type = "TAG" /\ Recognized(g_handled[i].msg.name) =>
            /\ g_handled[i].outcome = "ok"
            /\ g_handled[i].into = g_handled[i].msg.file
            /\ tag_conv(g_handled[i].msg.name) \in DOMAIN g_infos[g_handled[i].msg.file]

\* C21: the load ends: its wait for the duration is a bounded retry, so a
\* load_file that polls returns or fails after finitely many polls, also
\* when the duration query never succeeds.
C21_LoadTerminates ==
    (g_pc \in {"load_poll", "load_sleep"}) ~> (g_pc \notin {"load_poll", "load_sleep"})

(***************************************************************************)
(* Properties of the naming within a batch.                                *)
(***************************************************************************)
\* the file name capture_frames builds from the number k in this batch
BatchFileName(k) ==
    FrameFileName(ExactLog(Len(batch_times), 10), Len(batch_times), k)

\* the calls before the i-th whose result capture_frames recorded
RecordedBefore(i) == {j \in 1..(i - 1) : Truthy(calls[j].result)}

\* C22 as stated: the i-th request of the batch is captured to
\* frame-<i>.png, whatever the outcomes of the earlier requests were.
C22_NamedByOrdinal ==
    \A i \in 1..Len(calls) : calls[i].file = i

\* C22: the i-th request is captured to frame-<s+1>.png, s being the number
\* of earlier requests of the batch whose result was recorded; the results
\* are frame-1.png, frame-2.png, ... in order, their paths are pairwise
\* distinct, and no later capture is written to the path of an earlier
\* recorded result.
C22_NamedByRecordedCount ==
    /\ \A i \in 1..Len(calls) :
          calls[i].file = Cardinality(RecordedBefore(i)) + 1
    /\ \A j \in 1..Len(frame_files) : frame_files[j].file = j
    /\ \A j \in 1..Len(frame_files) : \A k \in 1..Len(frame_files) :
          j # k => BatchFileName(frame_files[j].file)
                      # BatchFileName(frame_files[k].file)
    /\ \A i \in 1..Len(calls) : \A j \in RecordedBefore(i) :
          BatchFileName(calls[i].file) # BatchFileName(calls[j].file)

C22_Witness ==
    /\ batch_pc = "returned"
    /\ Len(calls) = 3
    /\ ~Truthy(calls[1].result)
    /\ Truthy(calls[2].result)
    /\ Truthy(calls[3].result)
    /\ calls[2].file = 1
    /\ calls[3].file = 2
    /\ Len(frame_files) = 2

(***************************************************************************)
(* Properties of MPlayerBackend.capture_frame.                             *)
(***************************************************************************)
\* C23: after every return of capture_frame, with or without destination,
\* success or failure, 00000001.png does not exist in the temporary
\* directory; so no call finds a file left by an earlier one, a call
\* reports success exactly when its own run of mplayer produced the file,
\* and the probes (calls without destination) leave no file behind.
C23_NoLeftoverOutput ==
    /\ ~mc_exists
    /\ \A i \in DOMAIN mc_log :
          /\ ~mc_log[i].existed
          /\ Succeeded(mc_log[i]) <=> mc_log[i].produced
          /\ Succeeded(mc_log[i]) => mc_log[i].result = PyNum(mc_log[i].time)
    /\ mc_frames =
          {mc_log[i].destination.n :
              i \in {j \in DOMAIN mc_log :
                        /\ mc_log[j].produced
                        /\ mc_log[j].destination # NoDestination}}

C23_Witness ==
    /\ Len(mc_log) = 3
    /\ mc_log[1].destination = NoDestination /\ mc_log[1].produced
    /\ mc_log[2].destination = NoDestination /\ ~mc_log[2].produced
    /\ mc_log[2].result = PyFalse
    /\ mc_log[3].destination # NoDestination /\ ~mc_log[3].produced
    /\ mc_log[3].result = PyFalse
    /\ mc_frames = {}

====
